---------------------------- MODULE Spec2Model ----------------------------
(***************************************************************************)
(* A model of undervolt.py: the voltage-offset, power-limit and thermal    *)
(* target codecs, the MSR device interface (write_msr / read_msr) and the  *)
(* set-and-verify operations built on them.                                *)
(*                                                                         *)
(* Representation.                                                         *)
(*  - A register value (a Python int used as a 64-bit word) is the set of  *)
(*    its set bit positions, a subset of 0..64.  Position 64 stands for    *)
(*    "some bit above 63 is set": a negative Python int (infinite sign     *)
(*    extension) or a value >= 2^64.  struct.pack('Q', v) raises exactly   *)
(*    for those values.                                                    *)
(*  - A Python float is a dyadic number [m |-> mantissa, e |-> exponent],  *)
(*    the value m * 2^e.  All floats the modelled code meets on the        *)
(*    modelled inputs are such numbers with small mantissas, for which the *)
(*    IEEE operations used (multiplication and division by powers of two,  *)
(*    comparisons, log2 of exact powers of two) are exact.                 *)
(*  - A millivolt value is an integer count of 1/128 mV (x / 1.024 =       *)
(*    125 * x / 128, so every value unconvert_offset returns is one).      *)
(*  - An optional value (None or v) is the tuple << >> or <<v>>.           *)
(***************************************************************************)
EXTENDS Integers, Sequences, FiniteSets, TLC

VARIABLES
    cpuDir,     \* cpuDir[i]: /dev/cpu/i is a directory
    cpuMsr,     \* cpuMsr[i]: /dev/cpu/i/msr exists
    regs,       \* regs[i][addr]: the value of MSR addr on processor i
    fivr,       \* fivr[p]: the 11-bit offset the voltage regulator holds for plane p
    acNode,     \* AC_STATE_NODE is set (the /sys entry exists)
    pre,        \* regs as they were when the call was made
    devStores,  \* the processor stores what the call writes (FALSE: it silently
                \* keeps the old setting)
    log,        \* the device accesses of the call, in order:
                \* <<"write", cpu, addr, value>> and <<"read", cpu, addr, value>>
    tempCalls,  \* the arguments of the set_temperature calls made, in order
    pc,         \* "ready" before the call, "done" after it
    call,       \* the operation called and its arguments
    ret,        \* what the call computed
    outcome     \* "none", "ok", or the exception that ended the call

vars == <<cpuDir, cpuMsr, regs, fivr, acNode, pre, devStores, log, tempCalls, pc, call, ret, outcome>>

---------------------------------------------------------------------------
(* Bounds of the model.                                                    *)

\* multiprocessing.cpu_count() of the modelled machine
NCpu == 2
\* requested times are m * 2^e seconds with 1 <= m <= MaxMant
MaxMant == 7
\* ... and -MaxNegExp <= e <= MaxExp
MaxNegExp == 12
MaxExp == 33

---------------------------------------------------------------------------
(* Program constants.                                                      *)

\* ADDRESSES = MSR(0x150, 0x606, 0x610, 0x1a2)
AddrVoltage == 336
AddrUnits == 1542
AddrPower == 1552
AddrTemp == 418
\* the docstring test of unconvert_offset: range(-999, 1000)
MinMilliVolt == -999
MaxMilliVolt == 999
\* the docstring test of unconvert_rounded_offset: [1024 - x for x in range(0, 2048)]
MinRounded == -1023
MaxRounded == 1024

None == << >>
Some(v) == <<v>>
IsNone(o) == o = << >>
Get(o) == o[1]
OrElse(o, d) == IF o = << >> THEN d ELSE o[1]

---------------------------------------------------------------------------
(* Integers as words.                                                      *)

Pow2[n \in 0..30] == IF n = 0 THEN 1 ELSE 2 * Pow2[n - 1]

\* bit i of the (two's complement, sign-extended) integer n
BitOf(n, i) == IF i <= 30 THEN (n \div Pow2[i]) % 2 = 1 ELSE n < 0

\* n << sh as a word
Shl(n, sh) == {i + sh : i \in {j \in 0..(64 - sh) : BitOf(n, j)}}

RECURSIVE SumBits(_, _, _)
SumBits(w, lo, width) ==
    IF width = 0 THEN 0
    ELSE (IF lo + width - 1 \in w THEN Pow2[width - 1] ELSE 0) + SumBits(w, lo, width - 1)

\* (w >> lo) & (2^width - 1), for width <= 30
Field(w, lo, width) == SumBits(w, lo, width)

\* w >> n, for a word below 2^64
Shr(w, n) == {i - n : i \in {j \in w : j >= n}}

\* a | b for a in 0..127 and any integer b, as an integer
IntOr(a, b) ==
    LET add(i) == IF BitOf(a, i) /\ ~BitOf(b, i) THEN Pow2[i] ELSE 0
    IN  b + add(0) + add(1) + add(2) + add(3) + add(4) + add(5) + add(6)

\* a ^ b
Xor(a, b) == (a \ b) \cup (b \ a)

\* struct.pack('Q', w) accepts w
Packable(w) == 64 \notin w

---------------------------------------------------------------------------
(* Dyadic numbers m * 2^e (Python floats).                                 *)

Dy(m, e) == [m |-> m, e |-> e]

\* a.m * 2^a.e >= b.m * 2^b.e, for 0 <= mantissas < 2^10
DyGE(a, b) ==
    LET d == a.e - b.e IN
    IF a.m = 0 THEN b.m = 0
    ELSE IF b.m = 0 THEN TRUE
    ELSE IF d >= 0 THEN (IF d > 20 THEN TRUE ELSE a.m * Pow2[d] >= b.m)
    ELSE (IF -d > 20 THEN FALSE ELSE a.m >= b.m * Pow2[-d])

\* |a - b|, for mantissas < 2^10 and exponents at most 20 apart
DyAbsDiff(a, b) ==
    LET E == IF a.e < b.e THEN a.e ELSE b.e
        x == a.m * Pow2[a.e - E]
        y == b.m * Pow2[b.e - E]
    IN  Dy(IF x >= y THEN x - y ELSE y - x, E)

\* int(a): truncation toward zero, for |a| < 2^30
DyTrunc(a) ==
    IF a.e >= 0 THEN a.m * Pow2[a.e]
    ELSE IF a.e < -30 THEN 0
    ELSE IF a.m >= 0 THEN a.m \div Pow2[-a.e]
    ELSE -((-a.m) \div Pow2[-a.e])

---------------------------------------------------------------------------
(* The voltage-offset codec.                                               *)

\* 0xFFE00000 & ((x & 0xFFF) << 21)
convert_rounded_offset(x) == Shl(x % 4096, 21) \cap (21..31)

\* int(round(mV * 1.024)) for mV = mv128 / 128: mv128 / 125 rounded to the
\* nearest integer (125 is odd: no input is a tie)
RoundScaled(mv128) == (2 * mv128 + 125) \div 250

convert_offset(mv128) == convert_rounded_offset(RoundScaled(mv128))

unconvert_rounded_offset_strict(y) ==
    LET x == Field(y, 21, 30) IN IF x < 1024 THEN x ELSE -(2048 - x)

unconvert_rounded_offset(y) ==
    LET x == Field(y, 21, 30) IN IF x <= 1024 THEN x ELSE -(2048 - x)

\* unconvert_rounded_offset(y) / 1.024, in 1/128 mV
unconvert_offset(y) == 125 * unconvert_rounded_offset(y)

pack_offset(plane_index, offset) ==
    {63} \cup Shl(plane_index, 40) \cup {36}
         \cup (IF IsNone(offset) THEN {} ELSE {32})
         \cup OrElse(offset, {})

\* for responses below 2^53, where the float division by 2^40 is exact
unpack_offset(msr_response) ==
    LET plane_index == Field(msr_response, 40, 24)
    IN  unconvert_offset(Xor(msr_response, Shl(plane_index, 40)))

---------------------------------------------------------------------------
(* The power-limit codec.                                                  *)

\* 0x7f010000ff010000
ReservedMask == {16} \cup (24..31) \cup {48} \cup (56..62)

\* 2**(val & 0x1f) * (1 + ((val >> 5) & 0x3) / 4.0) / unit, unit = 2^kt
to_seconds(val, kt) == Dy(4 + Field(val, 5, 2), Field(val, 0, 5) - 2 - kt)

\* abs(back_val - val) < min_err, for min_err = 1E9
LessThan1E9(err) ==
    IF err.m = 0 THEN TRUE
    ELSE IF err.e > 30 THEN FALSE
    ELSE IF err.e > 0 THEN err.m <= (1000000000 - 1) \div Pow2[err.e]
    ELSE IF err.e < -30 THEN TRUE
    ELSE err.m \div Pow2[-err.e] < 1000000000

\* floor(log2(val_mult)) for val_mult = val / (1 + y / 4.0) = 4v / (4 + y)
FloorLog2(v, y) ==
    CHOOSE j \in (v.e - 1)..(v.e + 12) :
        /\ DyGE(Dy(4 * v.m, v.e), Dy(4 + y, j))
        /\ ~DyGE(Dy(4 * v.m, v.e), Dy(4 + y, j + 1))

\* exp_int = int(exp): exp truncated toward zero, k = floor(exp)
Truncated(v, y, k) ==
    IF k >= 0 \/ DyGE(Dy(4 + y, k), Dy(4 * v.m, v.e)) THEN k ELSE k + 1

\* if val_mult - 2**exp_int >= 2**(exp_int + 1) - val_mult: exp_int += 1
Closer(v, y, exp_int) ==
    IF DyGE(Dy(8 * v.m, v.e), Dy(3 * (4 + y), exp_int)) THEN exp_int + 1 ELSE exp_int

\* if exp_int > 0x1f: exp_int = 0x1f
Clamped(exp_int) == IF exp_int > 31 THEN 31 ELSE exp_int

\* exp_int of multiplier y for the scaled value v
ExpInt(v, y) == Clamped(Closer(v, y, Truncated(v, y, FloorLog2(v, y))))

\* abs(back_val - val) for back_val = 2**exp_int * multiplier
BackErr(v, y, exp_int) == DyAbsDiff(Dy(4 + y, exp_int - 2), v)

\* one round of the loop, given the round's exp_int and error
RECURSIVE from_seconds_loop(_, _, _, _)
from_seconds_step(v, y, min_err, result, exp_int, err) ==
    IF (IF IsNone(min_err) THEN LessThan1E9(err) ELSE ~DyGE(err, Get(min_err)))
    THEN from_seconds_loop(v, y + 1, Some(err), IntOr(32 * y, exp_int))
    ELSE from_seconds_loop(v, y + 1, min_err, result)

\* for y in range(4), from y on; min_err None stands for 1E9
from_seconds_loop(v, y, min_err, result) ==
    IF y = 4 THEN result
    ELSE from_seconds_step(v, y, min_err, result, ExpInt(v, y),
                           BackErr(v, y, ExpInt(v, y)))

\* from_seconds(val, unit) for val > 0 and unit = 2^kt
from_seconds(val, kt) ==
    LET v == Dy(val.m, val.e + kt) IN
    IF DyGE(Dy(4 * v.m, v.e), Dy(7, 31))     \* log2(val / 1.75) >= 0x1f
    THEN 254
    ELSE from_seconds_loop(v, 0, None, 0)

\* log2 raises ValueError for val <= 0
from_seconds_raises(val) == val.m <= 0

read_power_limit(units, val) ==
    LET kp == Field(units, 0, 4)
        kt == Field(units, 16, 4)
    IN  [short_term_enabled |-> 47 \in val,
         short_term_power   |-> Dy(Field(val, 32, 15), -kp),
         short_term_time    |-> to_seconds(Shr(val, 49), kt),
         long_term_enabled  |-> 15 \in val,
         long_term_power    |-> Dy(Field(val, 0, 15), -kp),
         long_term_time     |-> to_seconds(Shr(val, 17), kt),
         locked             |-> 63 \in val,
         backup_rest        |-> val \cap ReservedMask]

---------------------------------------------------------------------------
(* The MSR device files.  A machine state st is a record                   *)
(*   [regs, fivr, log, raised]                                             *)
(* where raised is "none" or the exception that ended the call.            *)

Cpus == 0..(NCpu - 1)

PLANES == [core |-> 0, gpu |-> 1, cache |-> 2, uncore |-> 3, analogio |-> 4]

valid_cpus == {i \in Cpus : cpuDir[i]}

Raise(st, exc) == [st EXCEPT !.raised = exc]

\* What the processor does with a value written to one of its MSRs.  The
\* mailbox (voltage offsets) executes the command written: a write command
\* (bit 32) sets the plane's offset, a read command leaves the plane's
\* offset as the response.  stores = FALSE is a processor that silently
\* keeps the old setting.
DevWrite(st, i, addr, val, stores) ==
    IF addr = AddrVoltage
    THEN LET plane == Field(val, 40, 4) IN
         IF 32 \in val
         THEN [st EXCEPT !.fivr = IF stores /\ plane \in DOMAIN @
                                  THEN [@ EXCEPT ![plane] = Field(val, 21, 11)]
                                  ELSE @,
                         !.regs[i][addr] = val \ {63}]
         ELSE [st EXCEPT !.regs[i][addr] =
                   Shl(plane, 40) \cup
                   Shl(IF plane \in DOMAIN st.fivr THEN st.fivr[plane] ELSE 0, 21)]
    ELSE [st EXCEPT !.regs[i][addr] = IF stores THEN val ELSE @]

RECURSIVE write_msr_skipping(_, _, _, _, _)
write_msr_skipping(i, st, val, addr, stores) ==
    IF i = NCpu THEN st
    ELSE IF i \notin valid_cpus \/ ~cpuMsr[i]
         THEN write_msr_skipping(i + 1, st, val, addr, stores)
    ELSE IF ~Packable(val) THEN Raise(st, "struct.error")
    ELSE write_msr_skipping(i + 1,
             DevWrite([st EXCEPT !.log = Append(@, <<"write", i, addr, val>>)],
                      i, addr, val, stores),
             val, addr, stores)

\* write_msr, from processor i on
RECURSIVE write_msr_from(_, _, _, _, _)
write_msr_from(i, st, val, addr, stores) ==
    IF i = NCpu THEN st
    ELSE IF i \notin valid_cpus THEN write_msr_from(i + 1, st, val, addr, stores)
    ELSE IF ~cpuMsr[i] THEN Raise(st, "OSError")
    ELSE IF ~Packable(val) THEN Raise(st, "struct.error")
    ELSE write_msr_from(i + 1,
             DevWrite([st EXCEPT !.log = Append(@, <<"write", i, addr, val>>)],
                      i, addr, val, stores),
             val, addr, stores)

write_msr(st, val, addr, stores) == write_msr_from(0, st, val, addr, stores)

\* read_msr(addr) can be called: os.open of /dev/cpu/0/msr succeeds
CanRead == cpuMsr[0]

\* read_msr(addr): the value is st.regs[0][addr]
read_msr(st, addr) ==
    IF CanRead
    THEN [st EXCEPT !.log = Append(@, <<"read", 0, addr, st.regs[0][addr]>>)]
    ELSE Raise(st, "OSError")

---------------------------------------------------------------------------
(* The operations.                                                         *)

read_temperature(st) == Field(st.regs[0][AddrTemp], 24, 7)

set_temperature_raw(st, temp, stores) ==
    write_msr(st, Shl(temp, 24), AddrTemp, stores)

set_temperature(st, temp, stores) ==
    write_msr(st, Shl(100 - temp, 24), AddrTemp, stores)

\* read_offset: the state after it; the offset read is unpack_offset of
\* the mailbox of processor 0
read_offset_read(s1) == IF s1.raised # "none" THEN s1 ELSE read_msr(s1, AddrVoltage)

read_offset(st, plane_index, stores) ==
    read_offset_read(write_msr(st, pack_offset(plane_index, None), AddrVoltage, stores))

offset_unverified(s2, want_mv) == s2

\* set_offset, lines 222-225: s2 is the state after read_offset
offset_verified(s2, want_mv) ==
    IF s2.raised # "none" THEN s2
    ELSE IF want_mv # unpack_offset(s2.regs[0][AddrVoltage]) THEN Raise(s2, "SystemExit")
    ELSE s2

\* set_offset, lines 219-221: s1 is the state after the write
offset_written(s1, plane_index, target, stores) ==
    IF s1.raised # "none" THEN s1
    ELSE offset_verified(read_offset(s1, plane_index, stores), unconvert_offset(target))

\* set_offset, lines 217-218
offset_write(st, plane_index, target, stores) ==
    offset_written(write_msr(st, pack_offset(plane_index, Some(target)),
                             AddrVoltage, stores),
                   plane_index, target, stores)

set_offset(st, plane_index, mV, stores) ==
    offset_write(st, plane_index, convert_offset(128 * mV), stores)

power_in_range_16(p) == p >= 0 /\ p <= 65535

\* not (p < 0 or p > 0x7fff)
power_in_range(p) == p >= 0 /\ p <= 32767

\* int(power * power_unit), the power the request's or else the old one
encoded_power(requested, old, units) ==
    DyTrunc(Dy(OrElse(requested, old).m, OrElse(requested, old).e + Field(units, 0, 4)))

\* the exception that ends the building of write_value, if any
build_raises(power_s, secs_s, power_l, secs_l) ==
    IF ~power_in_range(power_s) THEN "SystemExit"
    ELSE IF from_seconds_raises(secs_s) THEN "ValueError"
    ELSE IF ~power_in_range(power_l) THEN "SystemExit"
    ELSE IF from_seconds_raises(secs_l) THEN "ValueError"
    ELSE "none"

\* write_value, lines 293-331
build_value(rest, enabled_s, power_s, secs_s, enabled_l, power_l, secs_l, locked, kt) ==
    rest \cup (IF enabled_s THEN {47} ELSE {})
         \cup Shl(power_s, 32)
         \cup Shl(from_seconds(secs_s, kt), 49)
         \cup (IF enabled_l THEN {15} ELSE {})
         \cup Shl(power_l, 0)
         \cup Shl(from_seconds(secs_l, kt), 17)
         \cup (IF locked THEN {63} ELSE {})

\* the exception that ends set_power_limit before the write, if any
PowerLimitRaises(power_limit, old_limit, units) ==
    build_raises(
        encoded_power(power_limit.short_term_power, old_limit.short_term_power, units),
        OrElse(power_limit.short_term_time, old_limit.short_term_time),
        encoded_power(power_limit.long_term_power, old_limit.long_term_power, units),
        OrElse(power_limit.long_term_time, old_limit.long_term_time))

\* the write_value set_power_limit builds from the request and the old limit
PowerLimitValue(power_limit, old_limit, units) ==
    build_value(
        old_limit.backup_rest,
        OrElse(power_limit.short_term_enabled, old_limit.short_term_enabled),
        encoded_power(power_limit.short_term_power, old_limit.short_term_power, units),
        OrElse(power_limit.short_term_time, old_limit.short_term_time),
        OrElse(power_limit.long_term_enabled, old_limit.long_term_enabled),
        encoded_power(power_limit.long_term_power, old_limit.long_term_power, units),
        OrElse(power_limit.long_term_time, old_limit.long_term_time),
        OrElse(power_limit.locked, old_limit.locked),
        Field(units, 16, 4))

\* set_power_limit, lines 335-338: s4 is the state after the re-read
power_limit_verified(s4, write_value) ==
    IF s4.regs[0][AddrPower] # write_value THEN Raise(s4, "SystemExit") ELSE s4

\* set_power_limit, line 334: s3 is the state after the write
power_limit_written(s3, write_value) ==
    IF s3.raised # "none" THEN s3
    ELSE power_limit_verified(read_msr(s3, AddrPower), write_value)

\* set_power_limit, lines 289-334: s2 is the state after the units are read
power_limit_write(s2, raised, write_value, stores) ==
    IF raised # "none" THEN Raise(s2, raised)
    ELSE power_limit_written(write_msr(s2, write_value, AddrPower, stores), write_value)

refuses_never(old_limit) == FALSE

\* if old_limit.locked
refuses_locked(old_limit) == old_limit.locked

\* set_power_limit, lines 285-289: s1 is the state after read_power_limit
power_limit_read(s1, old_limit, power_limit, stores) ==
    IF refuses_locked(old_limit) THEN Raise(s1, "SystemExit")
    ELSE power_limit_write(read_msr(s1, AddrUnits),
                           PowerLimitRaises(power_limit, old_limit, s1.regs[0][AddrUnits]),
                           PowerLimitValue(power_limit, old_limit, s1.regs[0][AddrUnits]),
                           stores)

set_power_limit(st, power_limit, stores) ==
    IF ~CanRead THEN Raise(st, "OSError")
    ELSE power_limit_read(read_msr(read_msr(st, AddrUnits), AddrPower),
                          read_power_limit(st.regs[0][AddrUnits], st.regs[0][AddrPower]),
                          power_limit, stores)

\* read_ac_state(), given what the AC_STATE_NODE file says when it is read
read_ac_state(online) == IF acNode THEN online ELSE TRUE

\* a Python int or None used as a condition
Truthy(o) == ~IsNone(o) /\ Get(o) # 0

\* main, lines 403-407: the thermal targets.  online1 and online2 are what
\* the AC_STATE_NODE says at the first and at the second read_ac_state.
\* The result is the machine state with the set_temperature arguments.
main_thermal_second(s1, calls, temp_bat, second, stores) ==
    IF s1.raised # "none" \/ ~second THEN [st |-> s1, calls |-> calls]
    ELSE [st |-> set_temperature(s1, Get(temp_bat), stores),
          calls |-> Append(calls, Get(temp_bat))]

main_thermal_first(st, temp, temp_bat, first, second, stores) ==
    IF first
    THEN main_thermal_second(set_temperature(st, Get(temp), stores), <<Get(temp)>>,
                             temp_bat, second, stores)
    ELSE main_thermal_second(st, << >>, temp_bat, second, stores)

main_thermal(st, temp, temp_bat, online1, online2, stores) ==
    main_thermal_first(st, temp, temp_bat,
                       Truthy(temp) /\ (read_ac_state(online1) \/ ~Truthy(temp_bat)),
                       Truthy(temp_bat) /\ ~read_ac_state(online2),
                       stores)

---------------------------------------------------------------------------
(* The machine a call starts on, and the inputs of the calls.              *)

\* a power-limit register value, from its fields
MkLimit(en_s, power_s, time_s, en_l, power_l, time_l, locked, rest) ==
    (IF en_s THEN {47} ELSE {}) \cup Shl(power_s, 32) \cup Shl(time_s, 49)
        \cup (IF en_l THEN {15} ELSE {}) \cup Shl(power_l, 0) \cup Shl(time_l, 17)
        \cup (IF locked THEN {63} ELSE {}) \cup rest

PowerValues ==
    { {},
      MkLimit(TRUE, 200, 11, TRUE, 120, 110, FALSE, {}),
      MkLimit(TRUE, 200, 11, TRUE, 120, 110, FALSE, ReservedMask),
      MkLimit(FALSE, 32767, 127, TRUE, 120, 110, FALSE, {16, 24, 60}),
      MkLimit(TRUE, 200, 11, TRUE, 1, 127, FALSE, {}),
      MkLimit(TRUE, 200, 11, TRUE, 120, 110, TRUE, {}),
      MkLimit(TRUE, 200, 11, FALSE, 120, 110, TRUE, ReservedMask) }

\* 0xa0e03 (power unit 1/8 W, time unit 1/1024 s) and 0 (both units 1)
UnitsValues == { Shl(3, 0) \cup Shl(14, 8) \cup Shl(10, 16), {} }

\* the offsets (mV) asked for
OffsetInputs == {-2100, -1500, -1000, -999, -50, 0, 50, 999, 1000, 2000}

OffsetPlanes == {"core", "gpu"}

\* the thermal targets asked for
TempInputs == {0, 3, 50, 97, 100, 101, -28}

\* requested watts and seconds
PowerInputs == {Dy(10, 0), Dy(-1, -1), Dy(-1, 0), Dy(32767, 0), Dy(65535, -1),
                Dy(1, 12), Dy(1, 15)}
TimeInputs == {Dy(1, 0), Dy(28, 0), Dy(1, -1), Dy(1, -11), Dy(0, 0), Dy(7, 29),
               Dy(7, 19), Dy(3, 40)}

\* one term of a request: enabled, power, time
TermInputs ==
    {<<Some(TRUE), Some(p), Some(Dy(1, 0))>> : p \in PowerInputs}
        \cup {<<Some(TRUE), Some(Dy(10, 0)), Some(t)>> : t \in TimeInputs}
        \cup {<<None, Some(Dy(10, 0)), None>>, <<Some(FALSE), None, None>>}

Unset == <<None, None, None>>

MkRequest(short, long, locked) ==
    [short_term_enabled |-> short[1], short_term_power |-> short[2],
     short_term_time |-> short[3],
     long_term_enabled |-> long[1], long_term_power |-> long[2],
     long_term_time |-> long[3],
     locked |-> locked]

PowerLimitInputs ==
    {MkRequest(s, Unset, l) : s \in TermInputs, l \in {Some(FALSE), Some(TRUE)}}
        \cup {MkRequest(Unset, t, l) : t \in TermInputs, l \in {Some(FALSE), Some(TRUE)}}
        \cup {MkRequest(<<Some(TRUE), Some(Dy(-1, 0)), Some(Dy(1, 0))>>,
                        <<Some(TRUE), Some(Dy(10, 0)), Some(Dy(1, 0))>>, Some(FALSE)),
              MkRequest(<<Some(TRUE), Some(Dy(10, 0)), Some(Dy(1, 0))>>,
                        <<Some(TRUE), Some(Dy(1, 15)), Some(Dy(1, 0))>>, Some(FALSE)),
              MkRequest(Unset, Unset, None),
              MkRequest(Unset, Unset, Some(TRUE))}

MsrAddresses == {AddrVoltage, AddrUnits, AddrPower, AddrTemp}

Init ==
    /\ cpuDir \in [Cpus -> BOOLEAN]
    /\ cpuMsr \in [Cpus -> BOOLEAN]
    /\ \A i \in Cpus : cpuMsr[i] => cpuDir[i]
    /\ \E u \in UnitsValues, p \in PowerValues :
           regs = [i \in Cpus |->
                      [a \in MsrAddresses |->
                          IF a = AddrUnits THEN u
                          ELSE IF a = AddrPower THEN p
                          ELSE IF a = AddrTemp THEN Shl(100, 16)
                          ELSE {}]]
    /\ fivr = [p \in 0..4 |-> 0]
    /\ acNode \in BOOLEAN
    /\ pre = regs
    /\ devStores = TRUE
    /\ log = << >>
    /\ tempCalls = << >>
    /\ pc = "ready"
    /\ call = [name |-> "none"]
    /\ ret = << >>
    /\ outcome = "none"

Start == [regs |-> regs, fivr |-> fivr, log |-> << >>, raised |-> "none"]

\* the call c, made on a processor that stores or not, ends in machine state s
Finish(c, stores, s) ==
    /\ pc' = "done"
    /\ call' = c
    /\ devStores' = stores
    /\ regs' = s.regs
    /\ fivr' = s.fivr
    /\ log' = s.log
    /\ outcome' = IF s.raised = "none" THEN "ok" ELSE s.raised
    /\ UNCHANGED <<cpuDir, cpuMsr, acNode, pre>>

SetOffset ==
    /\ pc = "ready"
    /\ \E plane \in OffsetPlanes, mV \in OffsetInputs, stores \in BOOLEAN :
           /\ Finish([name |-> "set_offset", plane |-> plane, mV |-> mV], stores,
                     set_offset(Start, PLANES[plane], mV, stores))
           /\ ret' = << >>
           /\ tempCalls' = tempCalls

SetTemperature ==
    /\ pc = "ready"
    /\ \E temp \in TempInputs, stores \in BOOLEAN :
           /\ Finish([name |-> "set_temperature", temp |-> temp], stores,
                     set_temperature(Start, temp, stores))
           /\ ret' = << >>
           /\ tempCalls' = <<temp>>

SetPowerLimit ==
    /\ pc = "ready"
    /\ \E power_limit \in PowerLimitInputs, stores \in BOOLEAN :
           /\ Finish([name |-> "set_power_limit", power_limit |-> power_limit], stores,
                     set_power_limit(Start, power_limit, stores))
           /\ ret' = << >>
           /\ tempCalls' = tempCalls

MainThermal ==
    /\ pc = "ready"
    /\ \E temp \in {None, Some(0), Some(3)}, temp_bat \in {None, Some(0), Some(50)},
          online1 \in BOOLEAN, online2 \in BOOLEAN, stores \in BOOLEAN :
           LET r == main_thermal(Start, temp, temp_bat, online1, online2, stores) IN
           /\ Finish([name |-> "main", temp |-> temp, temp_bat |-> temp_bat], stores, r.st)
           /\ ret' = <<read_ac_state(online1), read_ac_state(online2)>>
           /\ tempCalls' = r.calls

Next == SetOffset \/ SetTemperature \/ SetPowerLimit \/ MainThermal

Spec == Init /\ [][Next]_vars

---------------------------------------------------------------------------
(* The codecs alone: every input of a bounded set, one call each.          *)

InitCodec ==
    /\ cpuDir = [i \in Cpus |-> TRUE]
    /\ cpuMsr = [i \in Cpus |-> TRUE]
    /\ regs = [i \in Cpus |-> [a \in MsrAddresses |-> {}]]
    /\ fivr = [p \in 0..4 |-> 0]
    /\ acNode = TRUE
    /\ pre = regs
    /\ devStores = TRUE
    /\ log = << >>
    /\ tempCalls = << >>
    /\ pc = "ready"
    /\ call = [name |-> "none"]
    /\ ret = << >>
    /\ outcome = "none"

Returns(c, r) ==
    /\ pc' = "done"
    /\ call' = c
    /\ ret' = r
    /\ outcome' = "ok"
    /\ UNCHANGED <<cpuDir, cpuMsr, regs, fivr, acNode, pre, devStores, log, tempCalls>>

\* the docstring test of unconvert_offset
OffsetRoundTrip ==
    /\ pc = "ready"
    /\ \E x \in MinMilliVolt..MaxMilliVolt :
        LET y == convert_offset(128 * x)
            x2 == unconvert_offset(y)
            y2 == convert_offset(x2)
        IN  Returns([name |-> "convert_offset", x |-> x],
                    [y |-> y, x2 |-> x2, y2 |-> y2])

\* the docstring test of unconvert_rounded_offset
RoundedRoundTrip ==
    /\ pc = "ready"
    /\ \E x \in MinRounded..MaxRounded :
        LET y == convert_rounded_offset(x)
        IN  Returns([name |-> "convert_rounded_offset", x |-> x],
                    [y |-> y, x2 |-> unconvert_rounded_offset(y)])

FromSeconds ==
    /\ pc = "ready"
    /\ \E m \in 1..MaxMant, e \in (-MaxNegExp)..MaxExp, kt \in 0..15 :
        Returns([name |-> "from_seconds", val |-> Dy(m, e), kt |-> kt],
                from_seconds(Dy(m, e), kt))

NextCodec == OffsetRoundTrip \/ RoundedRoundTrip \/ FromSeconds

SpecCodec == InitCodec /\ [][NextCodec]_vars

---------------------------------------------------------------------------
(* The properties.                                                         *)

Done(name) == pc = "done" /\ call.name = name

IsWrite(ev) == ev[1] = "write"
IsRead(ev) == ev[1] = "read"
WriteLog == SelectSeq(log, IsWrite)
ReadLog == SelectSeq(log, IsRead)

\* the old limit and the units set_power_limit read
OldLimit == read_power_limit(pre[0][AddrUnits], pre[0][AddrPower])

\* the request's (or else the old limit's) powers times the power unit
ScaledShort ==
    LET w == OrElse(call.power_limit.short_term_power, OldLimit.short_term_power)
    IN  Dy(w.m, w.e + Field(pre[0][AddrUnits], 0, 4))
ScaledLong ==
    LET w == OrElse(call.power_limit.long_term_power, OldLimit.long_term_power)
    IN  Dy(w.m, w.e + Field(pre[0][AddrUnits], 0, 4))

\* C1.  Lock enforcement: a set_power_limit that reads a power-limit
\* register with bit 63 set ends with SystemExit, has written no register
\* of any processor, and has left every register as it was, whatever the
\* request and the units.
C1_LockEnforcement ==
    (Done("set_power_limit") /\ CanRead /\ 63 \in pre[0][AddrPower])
        => (outcome = "SystemExit" /\ WriteLog = << >> /\ regs = pre)

\* a locked register, and a request to change the long-term limit of it
C1_Witness ==
    /\ Done("set_power_limit") /\ CanRead /\ 63 \in pre[0][AddrPower]
    /\ ~IsNone(call.power_limit.long_term_power)
    /\ outcome = "SystemExit"
    /\ ReadLog # << >>

\* the bits of the power-limit register the request of the call set
Touched ==
    LET r == call.power_limit IN
    (IF IsNone(r.short_term_enabled) THEN {} ELSE {47})
        \cup (IF IsNone(r.short_term_power) THEN {} ELSE 32..46)
        \cup (IF IsNone(r.short_term_time) THEN {} ELSE 49..55)
        \cup (IF IsNone(r.long_term_enabled) THEN {} ELSE {15})
        \cup (IF IsNone(r.long_term_power) THEN {} ELSE 0..14)
        \cup (IF IsNone(r.long_term_time) THEN {} ELSE 17..23)
        \cup (IF IsNone(r.locked) THEN {} ELSE {63})

\* C2.  Reserved-bits preservation: the value set_power_limit writes equals
\* the register read before, in every bit outside the fields the request
\* set.
C2_ReservedBitsPreserved ==
    (Done("set_power_limit") /\ WriteLog # << >>)
        => \A b \in (0..63) \ Touched :
               (b \in WriteLog[1][4]) <=> (b \in pre[0][AddrPower])

\* C3.  Set-and-verify: a set_offset or set_power_limit that returns
\* normally has written the intended value and then read the register
\* back, and the value read back matches: for set_offset the offset
\* unpacked from the mailbox response is the offset of the intended raw
\* value, for set_power_limit the register is the value written, bit for
\* bit.
C3_SetAndVerify ==
    /\ (Done("set_offset") /\ outcome = "ok")
           => /\ Len(log) >= 3
              /\ log[1] = <<"write", 0, AddrVoltage,
                            pack_offset(PLANES[call.plane],
                                        Some(convert_offset(128 * call.mV)))>>
              /\ IsWrite(log[Len(log) - 1])
              /\ log[Len(log)] = <<"read", 0, AddrVoltage, regs[0][AddrVoltage]>>
              /\ unpack_offset(regs[0][AddrVoltage])
                     = unconvert_offset(convert_offset(128 * call.mV))
    /\ (Done("set_power_limit") /\ outcome = "ok")
           => /\ Len(log) >= 2
              /\ IsWrite(log[Len(log) - 1])
              /\ log[Len(log) - 1][3] = AddrPower
              /\ log[Len(log)] = <<"read", 0, AddrPower, log[Len(log) - 1][4]>>
              /\ regs[0][AddrPower] = log[Len(log) - 1][4]

\* -50 mV set on a processor that takes it: the mailbox answers 0xf9a00000
C3_Witness ==
    /\ Done("set_offset") /\ outcome = "ok" /\ call.mV = -50
    /\ regs[0][AddrVoltage] = Shl(PLANES[call.plane], 40) \cup Shl(1997, 21)

C5_OutOfRangeRejected ==
    (Done("set_offset") /\ RoundScaled(128 * call.mV) \notin (-2048)..2047)
        => (outcome # "ok" /\ WriteLog = << >>)

\* C6.  Projection idempotence: for every integer x in [-999, 999],
\* convert_offset(unconvert_offset(convert_offset(x))) = convert_offset(x);
\* for every r in [-1023, 1024],
\* unconvert_rounded_offset(convert_rounded_offset(r)) = r; and every raw
\* value produced has only bits 21..31 set.
C6_ProjectionIdempotence ==
    /\ Done("convert_offset")
           => /\ ret.y2 = ret.y
              /\ ret.y = convert_offset(128 * call.x)
              /\ ret.y \subseteq 21..31
    /\ Done("convert_rounded_offset")
           => /\ ret.x2 = call.x
              /\ ret.y \subseteq 21..31

\* convert_offset(-50) = 0xf9a00000, which unconverts to -49.8046875 mV
\* (-6375 / 128), not to -50: the round trip is a projection
C6_Witness ==
    /\ Done("convert_offset") /\ call.x = -50
    /\ ret.y = Shl(1997, 21)
    /\ ret.x2 = -6375
    /\ ret.y2 = ret.y

\* C7.  The encoded time window is a 7-bit field: from_seconds returns an
\* integer in [0, 0x7f], for every positive time and every time unit.
C7_SevenBitField ==
    Done("from_seconds") => ret \in 0..127

\* C8.  write_msr is sequential and not atomic.  For the one write_msr call
\* of set_temperature: the processors written are the valid ones below the
\* first valid processor whose msr node is missing, in index order; the
\* call raises OSError exactly when there is such a processor; the
\* processors written hold the new value (on a processor that stores) and
\* the failing processor and all later ones are as they were.
C8_SequentialWrite ==
    (Done("set_temperature") /\ call.temp <= 100) =>
        LET val == Shl(100 - call.temp, 24)
            missing == {i \in Cpus : cpuDir[i] /\ ~cpuMsr[i]}
            stop == IF missing = {} THEN NCpu
                    ELSE CHOOSE i \in missing : \A j \in missing : i <= j
            written == {i \in Cpus : cpuDir[i] /\ i < stop}
        IN  /\ outcome = (IF missing = {} THEN "ok" ELSE "OSError")
            /\ Len(log) = Cardinality(written)
            /\ \A k \in 1..Len(log) :
                   /\ log[k] = <<"write", log[k][2], AddrTemp, val>>
                   /\ log[k][2] \in written
                   /\ \A j \in 1..(k - 1) : log[j][2] < log[k][2]
            /\ \A i \in written :
                   regs[i] = [pre[i] EXCEPT ![AddrTemp] = IF devStores THEN val ELSE @]
            /\ \A i \in Cpus \ written : regs[i] = pre[i]

\* processor 0 written, processor 1 without its msr node and as it was
C8_Witness ==
    /\ Done("set_temperature") /\ call.temp = 3 /\ devStores
    /\ cpuMsr[0] /\ cpuDir[1] /\ ~cpuMsr[1]
    /\ outcome = "OSError"
    /\ regs[0][AddrTemp] = Shl(97, 24)
    /\ regs[1] = pre[1]
    /\ regs[0] # pre[0]

\* m * 2^e is outside [0, 0x7fff]
OutsideReal(d) ==
    \/ d.m < 0
    \/ IF d.e >= 0 THEN d.m * Pow2[d.e] > 32767 ELSE d.m > 32767 * Pow2[-d.e]

C10_OneThermalWrite ==
    Done("main") =>
        /\ Len(tempCalls) <= 1
        /\ Len(tempCalls) = 1 =>
               \E online \in {ret[1], ret[2]} :
                   Some(tempCalls[1]) = (IF ~online /\ Truthy(call.temp_bat)
                                         THEN call.temp_bat ELSE call.temp)

===========================================================================
